---- MODULE Spec2Model ----
(***************************************************************************)
(* Model of pcf2d (src/paircorrelation2d.py): the boundary-corrected 2D    *)
(* pair correlation function.                                              *)
(*                                                                         *)
(* Conventions of the model                                                *)
(*  - points are pairs <<x, y>> of integers, arrays are 1-based sequences   *)
(*    (index k of the model is index k-1 of the code);                     *)
(*  - None is the empty tuple <<>>;                                        *)
(*  - a float is a pair <<n, d>> in lowest terms with d >= 0; d = 0 gives  *)
(*    the IEEE specials: <<1,0>> is inf, <<-1,0>> is -inf, <<0,0>> is nan; *)
(*  - a distance is kept as its square (a float), and compared with a bin  *)
(*    edge through the square of the edge (edges are >= 0);                *)
(*  - ring_area and g(r) carry the factor pi symbolically: ring_area is    *)
(*    in units of pi, g_of_r_normalized in units of 1/pi;                  *)
(*  - the area of a shape built by buffer() is the number of unit lattice  *)
(*    cells whose centre lies in it (the polygonal approximation), also    *)
(*    used for its intersection with the area of interest.                 *)
(***************************************************************************)
EXTENDS Integers, Sequences, FiniteSets, TLC

\* Largest number of rows of array_positions explored.
MaxPts == 3

None == <<>>

----------------------------------------------------------------------------
\* The inputs explored

PointCands == {<<0, 3>>, <<3, 3>>, <<3, 2>>, <<7, 3>>}

Positions == UNION {[1..n -> PointCands] : n \in 0..MaxPts}

WellFormedBins == {<<0, 1>>, <<0, 1, 2>>, <<1, 2, 3>>, <<1, 6, 7>>}

IllFormedBins == {<<2, 1>>, <<1, 1>>, <<2>>}

BinCands == WellFormedBins \cup IllFormedBins

Square == <<<<0, 0>>, <<0, 6>>, <<6, 6>>, <<6, 0>>>>

BowTie == <<<<0, 0>>, <<0, 6>>, <<6, 0>>, <<6, 6>>>>

Hole == <<<<4, 4>>, <<4, 5>>, <<5, 5>>, <<5, 4>>>>

CrossingHole == <<<<5, 2>>, <<5, 4>>, <<7, 4>>, <<7, 2>>>>

BorderCands ==
    {[border |-> None, holes |-> None],
     [border |-> Square, holes |-> None],
     [border |-> Square, holes |-> <<Hole>>],
     [border |-> BowTie, holes |-> None],
     [border |-> Square, holes |-> <<CrossingHole>>]}

----------------------------------------------------------------------------
\* Integer helpers

Abs(n) == IF n < 0 THEN 0 - n ELSE n

Sign(n) == IF n < 0 THEN 0 - 1 ELSE IF n > 0 THEN 1 ELSE 0

RECURSIVE GCD(_, _)
GCD(a, b) == IF b = 0 THEN a ELSE GCD(b, a % b)

RECURSIVE SumSet(_, _)
SumSet(S, f) ==
    IF S = {} THEN 0
    ELSE LET x == CHOOSE y \in S : TRUE IN f[x] + SumSet(S \ {x}, f)

RECURSIVE SumTo(_, _)
SumTo(n, f) == IF n = 0 THEN 0 ELSE f[n] + SumTo(n - 1, f)

----------------------------------------------------------------------------
\* Floating-point values (numpy float64 / Python float) as extended rationals

FNorm(n, d) ==
    IF d = 0 THEN <<Sign(n), 0>>
    ELSE LET g == GCD(Abs(n), Abs(d)) IN <<(Sign(d) * n) \div g, Abs(d) \div g>>

FInt(n) == <<n, 1>>

FNan == <<0, 0>>

IsFinite(a) == a[2] # 0

IsNan(a) == a = FNan

FAdd(a, b) ==
    IF a[2] = 0 /\ b[2] = 0
    THEN (IF a = b THEN a ELSE FNan)
    ELSE FNorm(a[1] * b[2] + b[1] * a[2], a[2] * b[2])

FMul(a, b) == FNorm(a[1] * b[1], a[2] * b[2])

\* numpy true division: x/0 is inf, 0/0 is nan (a RuntimeWarning, no exception)
FDiv(a, b) == FNorm(a[1] * b[2], a[2] * b[1])

\* a < e*e and a <= e*e for a squared distance a and an edge e >= 0
FLtSq(a, e) == a[2] # 0 /\ a[1] < e * e * a[2]

FLeSq(a, e) == a[2] # 0 /\ a[1] <= e * e * a[2]

\* a > e*e: what dist > edge is on a squared distance
FGtSq(a, e) == a = <<1, 0>> \/ (a[2] # 0 /\ a[1] > e * e * a[2])

\* min of two finite non-negative floats
FMin(a, b) == IF a[1] * b[2] <= b[1] * a[2] THEN a ELSE b

----------------------------------------------------------------------------
\* Planar geometry (the shapely calls of the source)

Cross(a, b, c) == (b[1] - a[1]) * (c[2] - a[2]) - (b[2] - a[2]) * (c[1] - a[1])

Dot(a, b, c) == (b[1] - a[1]) * (c[1] - a[1]) + (b[2] - a[2]) * (c[2] - a[2])

Dist2(a, b) == Dot(a, b, b)

\* c lies on the closed segment a-b
OnSegment(a, b, c) == Cross(a, b, c) = 0 /\ Dot(c, a, b) <= 0

\* The directed edges of the closed ring through the vertices of coords
RingEdges(coords) ==
    {<<coords[k], coords[(k % Len(coords)) + 1]>> : k \in 1..Len(coords)}

\* The interiors of the two segments cross in a single point
ProperCross(e, f) ==
    /\ Sign(Cross(e[1], e[2], f[1])) * Sign(Cross(e[1], e[2], f[2])) < 0
    /\ Sign(Cross(f[1], f[2], e[1])) * Sign(Cross(f[1], f[2], e[2])) < 0

\* The two segments share at least one point
Touch(e, f) ==
    \/ ProperCross(e, f)
    \/ OnSegment(e[1], e[2], f[1]) \/ OnSegment(e[1], e[2], f[2])
    \/ OnSegment(f[1], f[2], e[1]) \/ OnSegment(f[1], f[2], e[2])

\* Twice the signed area enclosed by a set of directed edges (shoelace)
Shoelace(edges) ==
    SumSet(edges, [e \in edges |-> e[1][1] * e[2][2] - e[2][1] * e[1][2]])

\* p (given by its doubled coordinates) is on an edge of the ring
OnRing(edges, p) ==
    \E e \in edges :
        OnSegment(<<2 * e[1][1], 2 * e[1][2]>>, <<2 * e[2][1], 2 * e[2][2]>>, p)

\* number of edges crossed by the horizontal ray from p to the right
Crossings(edges, p) ==
    Cardinality({e \in edges :
        LET a == <<2 * e[1][1], 2 * e[1][2]>>
            b == <<2 * e[2][1], 2 * e[2][2]>>
            lo == IF a[2] < b[2] THEN a ELSE b
            hi == IF a[2] < b[2] THEN b ELSE a
        IN  (a[2] > p[2]) # (b[2] > p[2]) /\ Cross(lo, hi, p) > 0})

\* p (doubled coordinates) is inside the ring or on it
InRingClosed(edges, p) == OnRing(edges, p) \/ Crossings(edges, p) % 2 = 1

\* p (doubled coordinates) is strictly inside the ring
InRingOpen(edges, p) == ~OnRing(edges, p) /\ Crossings(edges, p) % 2 = 1

\* shapely Polygon(shell, holes): the edges of its rings
Polygon(shell, holes) ==
    [shell |-> RingEdges(shell),
     holes |-> {RingEdges(holes[h]) : h \in 1..Len(holes)}]

\* MultiPoint(points).convex_hull: the directed edges a->b that keep every
\* point on their left or on the segment itself.  A single point has no edge,
\* collinear points give the segment in both directions (a LineString).
ConvexHull(points) ==
    LET S == {points[k] : k \in 1..Len(points)} IN
    [shell |-> {e \in S \X S :
                  /\ e[1] # e[2]
                  /\ \A c \in S : \/ Cross(e[1], e[2], c) > 0
                                  \/ OnSegment(e[1], e[2], c)},
     holes |-> {}]

\* IsValid with the holes forgotten: only the shell is examined
IsValidShellOnly(poly) ==
    /\ Shoelace(poly.shell) # 0
    /\ \A e \in poly.shell : \A f \in poly.shell :
          (e # f /\ e[2] # f[1] /\ e[1] # f[2]) => ~Touch(e, f)

\* Polygon.is_valid: the shell does not meet itself outside shared vertices,
\* it encloses some area, and every hole lies inside the shell without
\* crossing it or another hole
IsValidRings(poly) ==
    /\ Shoelace(poly.shell) # 0
    /\ \A e \in poly.shell : \A f \in poly.shell :
          (e # f /\ e[2] # f[1] /\ e[1] # f[2]) => ~Touch(e, f)
    /\ \A h \in poly.holes :
          /\ Shoelace(h) # 0
          /\ \A e \in h : InRingClosed(poly.shell, <<2 * e[1][1], 2 * e[1][2]>>)
          /\ \A e \in h : \A f \in poly.shell : ~ProperCross(e, f)
          /\ \A g \in poly.holes \ {h} : \A e \in h : \A f \in g : ~Touch(e, f)

\* The polygons of BorderCands, and the valid ones among them: is_valid is
\* evaluated once for each
KnownPolygons ==
    {Polygon(b.border, IF b.holes = None THEN <<>> ELSE b.holes) :
        b \in {c \in BorderCands : c.border # None}}

ValidPolygons == {poly \in KnownPolygons : IsValidRings(poly)}

IsValid(poly) ==
    IF poly \in KnownPolygons THEN poly \in ValidPolygons ELSE IsValidRings(poly)

\* Polygon.area, doubled
Area2(poly) ==
    Abs(Shoelace(poly.shell))
    - SumSet(poly.holes, [h \in poly.holes |-> Abs(Shoelace(h))])

\* p (doubled coordinates) belongs to the closed region of the polygon
ContainsPoint(poly, p) ==
    /\ InRingClosed(poly.shell, p)
    /\ \A h \in poly.holes : ~InRingOpen(h, p)

\* The points of PointCands that each polygon of BorderCands contains:
\* evaluated once for each
ContainedCands ==
    {x \in KnownPolygons \X PointCands :
        ContainsPoint(x[1], <<2 * x[2][1], 2 * x[2][2]>>)}

\* polygon.intersection(point) is not empty, for the point q
Covers(poly, q) ==
    IF poly \in KnownPolygons /\ q \in PointCands
    THEN <<poly, q>> \in ContainedCands
    ELSE ContainsPoint(poly, <<2 * q[1], 2 * q[2]>>)

\* Polygon.boundary: the shell and the hole rings as one set of segments
Boundary(poly) == poly.shell \cup UNION poly.holes

\* squared distance from point p to the segment e
SegDist2(p, e) ==
    LET t == Dot(e[1], e[2], p)
        l == Dist2(e[1], e[2])
    IN  IF t <= 0 THEN FInt(Dist2(p, e[1]))
        ELSE IF t >= l THEN FInt(Dist2(p, e[2]))
        ELSE FNorm(Cross(e[1], e[2], p) * Cross(e[1], e[2], p), l)

RECURSIVE MinDist2(_, _)
MinDist2(p, edges) ==
    LET e == CHOOSE x \in edges : TRUE
        rest == edges \ {e}
    IN  IF rest = {} THEN SegDist2(p, e)
        ELSE FMin(SegDist2(p, e), MinDist2(p, rest))

\* Point.distance(border_area), squared
Distance2(p, border) == MinDist2(p, border)

----------------------------------------------------------------------------
\* Rings and their areas

\* The lattice cells (by lower-left corner) that can meet an area of interest
GridCells == (0..6) \X (0..6)

\* The cell c, moved by -p, has its centre in Point([0,0]).buffer(r):
\* 4*|centre - p|^2 < 4*r^2 (buffer(0) is empty)
InDisk(c, p, r) ==
    (2 * c[1] + 1 - 2 * p[1]) * (2 * c[1] + 1 - 2 * p[1])
    + (2 * c[2] + 1 - 2 * p[2]) * (2 * c[2] + 1 - 2 * p[2]) < 4 * r * r

\* rings[jj] = outer_circle.difference(inner_circle), as the pair of radii
Ring(bins, jj) == [inner |-> bins[jj], outer |-> bins[jj + 1]]

InRing(c, p, ring) == InDisk(c, p, ring.outer) /\ ~InDisk(c, p, ring.inner)

\* Point([0,0]).buffer(r).area for r = 0, 1, ..., n - 1: the number of cells
\* of the disk centred at the origin
DiskCells(r) ==
    Cardinality({c \in ((0 - r)..(r - 1)) \X ((0 - r)..(r - 1)) :
                    InDisk(c, <<0, 0>>, r)})

RECURSIVE DiskAreas(_)
DiskAreas(n) == IF n = 0 THEN <<>> ELSE Append(DiskAreas(n - 1), DiskCells(n - 1))

\* The largest bin edge of BinCands
MaxEdge ==
    LET E == UNION {{b[k] : k \in 1..Len(b)} : b \in BinCands}
    IN  CHOOSE m \in E : \A x \in E : x <= m

DiskArea == DiskAreas(MaxEdge + 1)

\* rings[jj].area: the outer disk less the inner disk it contains (the
\* difference is empty when the inner disk is the larger one)
RingAreaApprox(ring) ==
    IF ring.outer > ring.inner
    THEN DiskArea[ring.outer + 1] - DiskArea[ring.inner + 1]
    ELSE 0

\* np.pi*(bins_distances[jj+1]**2-bins_distances[jj]**2), in units of pi
RingArea(bins, jj) == bins[jj + 1] * bins[jj + 1] - bins[jj] * bins[jj]

\* area_of_interest.intersection(translate(ring, xoff, yoff)).area
IntersectionArea(poly, ring, p) ==
    Cardinality({c \in GridCells :
        InRing(c, p, ring) /\ ContainsPoint(poly, <<2 * c[1] + 1, 2 * c[2] + 1>>)})

\* the normalization factor of ring jj at point p (lines 190 and 193)
NormFactor(poly, bins, jj, p) ==
    FDiv(FInt(IntersectionArea(poly, Ring(bins, jj), p)),
         FInt(RingAreaApprox(Ring(bins, jj))))

----------------------------------------------------------------------------
\* numpy helpers

\* np.where(test)[0]: the indices of 1..n where the test holds (the set S),
\* ascending
RECURSIVE Where(_, _)
Where(n, S) ==
    IF n = 0 THEN <<>>
    ELSE IF n \in S THEN Append(Where(n - 1, S), n) ELSE Where(n - 1, S)

\* a[idx, :] for a sequence idx of row numbers
Take(a, idx) == [k \in 1..Len(idx) |-> a[idx[k]]]

Zeros(n) == [k \in 1..n |-> FInt(0)]

Ones(n, m) == [k \in 1..n |-> [j \in 1..m |-> FInt(1)]]

\* Number of bins: len(bins_distances)-1
NBins(bins) == Len(bins) - 1

\* Python indexing of an axis of length n with the 0-based index jj - 1:
\* a negative index counts from the end
PyIndex(jj, n) == IF jj < 1 THEN jj + n ELSE jj

\* np.histogram raises ValueError when the edges decrease somewhere
HistogramRaises(bins) == \E k \in 1..(Len(bins) - 1) : bins[k] > bins[k + 1]

\* np.histogram(dist, bins)[0] on the squared distances dist: the cumulative
\* counts of searchsorted (side left, right for the last edge) and their
\* differences
Histogram(dist, bins) ==
    LET cum(k) ==
            Cardinality({i \in 1..Len(dist) :
                IF k = Len(bins) THEN FLeSq(dist[i], bins[k])
                ELSE FLtSq(dist[i], bins[k])})
    IN  [j \in 1..NBins(bins) |-> cum(j + 1) - cum(j)]

----------------------------------------------------------------------------
\* The stages of pcf2d as operators

\* The value of results while the call is running, on a return without value,
\* on an exception, and on the return of the tuple out
Running == [kind |-> "running", exc |-> "", out |-> <<>>]

ReturnNone == [kind |-> "None", exc |-> "", out |-> <<>>]

Raise(e) == [kind |-> "raise", exc |-> e, out |-> <<>>]

Return(t) == [kind |-> "return", exc |-> "", out |-> t]

PointLess(a, b) == a[1] < b[1] \/ (a[1] = b[1] /\ a[2] < b[2])

RECURSIVE SortPoints(_)
SortPoints(S) ==
    IF S = {} THEN <<>>
    ELSE LET m == CHOOSE x \in S : \A y \in S \ {x} : PointLess(x, y)
         IN  <<m>> \o SortPoints(S \ {m})

\* area_of_interest.intersection(MultiPoint(array_positions)).geoms: the
\* distinct points of the array that the polygon contains, in GEOS's order
\* of coordinates
Intersection(poly, pos) ==
    SortPoints({q \in {pos[k] : k \in 1..Len(pos)} : Covers(poly, q)})

\* Lines 115-129.  exit is "None" on the return of line 126 and "" when the
\* call goes on.  geom is the type of positions_of_interest: the intersection
\* with a single point inside is a Point, with no point inside an empty
\* geometry.
CreateBoundary(pos, border, holes) ==
    IF border = None
    THEN [exit |-> "", area_of_interest |-> ConvexHull(pos),
          positions_of_interest |-> pos, geom |-> "MultiPoint"]
    ELSE LET poly == Polygon(border, IF holes = None THEN <<>> ELSE holes) IN
         IF ~IsValid(poly)
         THEN [exit |-> "None", area_of_interest |-> poly,
               positions_of_interest |-> <<>>, geom |-> ""]
         ELSE LET geoms == Intersection(poly, pos) IN
              [exit |-> "", area_of_interest |-> poly,
               positions_of_interest |-> geoms,
               geom |-> IF Len(geoms) = 0 THEN "Empty"
                        ELSE IF Len(geoms) = 1 THEN "Point" ELSE "MultiPoint"]

\* Line 131: positions_of_interest.geoms raises AttributeError on a Point.
\* The type of the empty intersection depends on the GEOS build: an empty
\* collection, which has geoms (emptyHasGeoms), or an empty Point.
GeomsRaises(geom, emptyHasGeoms) ==
    geom = "Point" \/ (geom = "Empty" /\ ~emptyHasGeoms)

\* Line 140: nb_part/(area_of_interest.area), a division of Python numbers,
\* which raises ZeroDivisionError on a zero area
DensityRaises(poly) == Area2(poly) = 0

Density(nb, poly) == FNorm(2 * nb, Area2(poly))

\* FastMethod that leaves dist_to_border as it was before the exclusion
\* (line 180 forgotten)
FastMethodStaleDist(geoms, pos, norm, poly, bins, full) ==
    LET dist == [k \in 1..Len(pos) |-> Distance2(geoms[k], Boundary(poly))]
        kept == Take(pos, Where(Len(dist),
                    {k \in 1..Len(dist) : FGtSq(dist[k], bins[Len(bins)])}))
    IN  [array_positions |-> kept,
         nb_part |-> Len(kept),
         dist_to_border |-> dist,
         normalisation |-> IF full THEN Ones(Len(kept), NBins(bins)) ELSE norm]

\* Lines 172-181: the fast method.  dist, pos and norm are the arrays before
\* the exclusion.
FarEnough(dist, bins) ==
    Where(Len(dist), {k \in 1..Len(dist) : FGtSq(dist[k], bins[Len(bins)])})

FastMethod(geoms, pos, norm, poly, bins, full) ==
    LET dist == [k \in 1..Len(pos) |-> Distance2(geoms[k], Boundary(poly))]
        far_enough == FarEnough(dist, bins)
        kept == Take(pos, far_enough)
    IN  [array_positions |-> kept,
         nb_part |-> Len(kept),
         dist_to_border |-> IF full THEN Take(dist, far_enough) ELSE dist,
         normalisation |-> IF full THEN Ones(Len(kept), NBins(bins)) ELSE norm]

\* WriteSet without the special case of line 188: the subset of line 192 for
\* every point
WriteSetNoSpecialCase(d, bins) ==
    {k - 1 : k \in {k \in 1..Len(bins) : FLtSq(d, bins[k])}}

\* Lines 188-192: the 0-based bin indices jj (kept 1-based here, so that a
\* negative index of the code is an index < 1) whose factor is computed for a
\* point at squared distance d from the boundary
WriteSet(d, bins) ==
    IF FLeSq(d, bins[1])
    THEN 1..NBins(bins)
    ELSE {k - 1 : k \in {k \in 1..Len(bins) : FLtSq(d, bins[k])}}

\* Lines 186-193 for one point p: its distance and its row of normalisation
AccurateRow(p, row, poly, bins) ==
    LET d == Distance2(p, Boundary(poly))
        cols == {PyIndex(jj, NBins(bins)) : jj \in WriteSet(d, bins)}
    IN  [dist |-> d,
         row |-> [j \in 1..NBins(bins) |->
                    IF j \in cols THEN NormFactor(poly, bins, j, p) ELSE row[j]]]

\* DistToLoc without line 206: the distance of the point to itself stays 0
DistToLocWithSelf(pos, ii) ==
    [k \in 1..Len(pos) |-> FInt(Dist2(pos[k], pos[ii]))]

\* Lines 205-206: the squared distances from point ii to every point, the
\* distance to itself replaced by inf
DistToLoc(pos, ii) ==
    [k \in 1..Len(pos) |-> IF k = ii THEN <<1, 0>> ELSE FInt(Dist2(pos[k], pos[ii]))]

\* HistIter that normalizes every point with the factors of the first row
\* (normalisation[0,:] for normalisation[ii,:])
HistIterFirstRow(acc, pos, ii, bins, normalisation) ==
    LET h == Histogram(DistToLoc(pos, ii), bins) IN
    [g  |-> [j \in 1..NBins(bins) |-> FAdd(acc.g[j], FInt(h[j]))],
     gn |-> [j \in 1..NBins(bins) |->
               FAdd(acc.gn[j],
                    FDiv(FInt(h[j]),
                         FMul(FInt(RingArea(bins, j)), normalisation[1][j])))]]

\* Lines 208-209: one iteration of the accumulation; acc.g is g_of_r and
\* acc.gn is g_of_r_normalized
HistIter(acc, pos, ii, bins, normalisation) ==
    LET h == Histogram(DistToLoc(pos, ii), bins) IN
    [g  |-> [j \in 1..NBins(bins) |-> FAdd(acc.g[j], FInt(h[j]))],
     gn |-> [j \in 1..NBins(bins) |->
               FAdd(acc.gn[j],
                    FDiv(FInt(h[j]),
                         FMul(FInt(RingArea(bins, j)), normalisation[ii][j])))]]

\* Finalize that divides g(r) by the density alone (nb_part forgotten at
\* line 216)
FinalizeDensityOnly(acc, nb, densite, bins) ==
    [g  |-> [j \in 1..NBins(bins) |-> FDiv(acc.g[j], FInt(nb))],
     gn |-> [j \in 1..NBins(bins) |-> FDiv(acc.gn[j], densite)],
     radii |-> [j \in 1..NBins(bins) |-> FNorm(bins[j + 1] + bins[j], 2)]]

\* Lines 215-218
Finalize(acc, nb, densite, bins) ==
    [g  |-> [j \in 1..NBins(bins) |-> FDiv(acc.g[j], FInt(nb))],
     gn |-> [j \in 1..NBins(bins) |-> FDiv(acc.gn[j], FMul(FInt(nb), densite))],
     radii |-> [j \in 1..NBins(bins) |-> FNorm(bins[j + 1] + bins[j], 2)]]

\* Lines 233-236
Results(fin, pos, dist, norm, densite, full) ==
    IF full
    THEN Return(<<fin.gn, fin.radii, fin.g, pos, dist, norm, densite>>)
    ELSE Return(<<fin.gn, fin.radii>>)

\* Lines 185-193: the whole loop of the accurate method
AccurateMethod(geoms, pos, norm, poly, bins) ==
    [array_positions |-> pos,
     nb_part |-> Len(pos),
     dist_to_border |-> [k \in 1..Len(pos) |->
                           AccurateRow(geoms[k], norm[k], poly, bins).dist],
     normalisation |-> [k \in 1..Len(pos) |->
                           AccurateRow(geoms[k], norm[k], poly, bins).row]]

\* Lines 200-209: the first n iterations of the loop
RECURSIVE HistLoop(_, _, _, _)
HistLoop(n, pos, bins, normalisation) ==
    IF n = 0
    THEN [g |-> Zeros(NBins(bins)), gn |-> Zeros(NBins(bins))]
    ELSE HistIter(HistLoop(n - 1, pos, bins, normalisation), pos, n, bins,
                  normalisation)

\* Lines 139-242: the call from the density on, for the points geoms of the
\* area of interest poly
FromDensity(geoms, poly, bins, fast, full) ==
    IF DensityRaises(poly) THEN Raise("ZeroDivisionError")
    ELSE LET densite == Density(Len(geoms), poly)
             norm == Ones(Len(geoms), NBins(bins))
             m == IF fast THEN FastMethod(geoms, geoms, norm, poly, bins, full)
                  ELSE AccurateMethod(geoms, geoms, norm, poly, bins)
         IN  IF m.nb_part > 0 /\ HistogramRaises(bins) THEN Raise("ValueError")
             ELSE Results(Finalize(HistLoop(m.nb_part, m.array_positions, bins,
                                            m.normalisation),
                                   m.nb_part, densite, bins),
                          m.array_positions, m.dist_to_border, m.normalisation,
                          densite, full)

\* The whole call, as a function of its arguments (and of the GEOS build)
Pcf2d(pos, bins, border, holes, fast, full, emptyHasGeoms) ==
    LET b == CreateBoundary(pos, border, holes) IN
    IF b.exit = "None" THEN ReturnNone
    ELSE IF border # None /\ GeomsRaises(b.geom, emptyHasGeoms)
    THEN Raise("AttributeError")
    ELSE FromDensity(b.positions_of_interest, b.area_of_interest, bins, fast, full)

----------------------------------------------------------------------------
\* The call of pcf2d as a state machine

VARIABLES
    input_positions,       \* the argument array_positions, as passed
    bins_distances, coord_border, coord_holes,
    fast_method, show_timing, plot, full_output,
    pc,                    \* the stage the call is about to execute
    executed,              \* the stages executed so far
    area_of_interest, positions_of_interest,
    array_positions,       \* the local array_positions (rebound at 131, 176)
    nb_part, densite,
    rings, ring_area, ring_area_approx,
    g_of_r, g_of_r_normalized, normalisation, dist_to_border,
    ii,                    \* the index of the running loop (1-based)
    written,               \* the pairs <<ii, jj>> of the writes of lines 190, 193
    radii, results

inputs == <<input_positions, bins_distances, coord_border, coord_holes,
            fast_method, show_timing, plot, full_output>>

domain == <<area_of_interest, positions_of_interest>>

ringvars == <<rings, ring_area, ring_area_approx>>

vars == <<inputs, pc, executed, domain, array_positions, nb_part, densite,
          ringvars, g_of_r, g_of_r_normalized, normalisation, dist_to_border,
          ii, written, radii, results>>

Locals ==
    /\ pc = "boundary"
    /\ executed = {}
    /\ area_of_interest = [shell |-> {}, holes |-> {}]
    /\ positions_of_interest = <<>>
    /\ array_positions = input_positions
    /\ nb_part = 0
    /\ densite = FInt(0)
    /\ rings = <<>>
    /\ ring_area = <<>>
    /\ ring_area_approx = <<>>
    /\ g_of_r = <<>>
    /\ g_of_r_normalized = <<>>
    /\ normalisation = <<>>
    /\ dist_to_border = <<>>
    /\ ii = 1
    /\ written = {}
    /\ radii = <<>>
    /\ results = Running

Init ==
    /\ input_positions \in Positions
    /\ bins_distances \in BinCands
    /\ \E b \in BorderCands : coord_border = b.border /\ coord_holes = b.holes
    /\ fast_method \in BOOLEAN
    /\ full_output \in BOOLEAN
    /\ show_timing = FALSE
    /\ plot = FALSE
    /\ Locals

\* The same call with show_timing and plot free as well, on two of the
\* well-formed bin sequences
InitFlags ==
    /\ input_positions \in Positions
    /\ bins_distances \in {<<0, 1>>, <<1, 2, 3>>}
    /\ \E b \in BorderCands : coord_border = b.border /\ coord_holes = b.holes
    /\ fast_method \in BOOLEAN
    /\ full_output \in BOOLEAN
    /\ show_timing \in BOOLEAN
    /\ plot \in BOOLEAN
    /\ Locals

\* the stage after the normalization: the histogram loop, or its end when
\* there is no point to loop over
LoopOrEnd(n, loop, end) == IF n = 0 THEN end ELSE loop

\* Lines 115-133
StepBoundary ==
    /\ pc = "boundary"
    /\ LET b == CreateBoundary(array_positions, coord_border, coord_holes) IN
       /\ area_of_interest' = b.area_of_interest
       /\ IF b.exit = "None"
          THEN /\ pc' = "done"
               /\ results' = ReturnNone
               /\ executed' = executed \cup {"polygon"}
               /\ UNCHANGED <<positions_of_interest, array_positions>>
          ELSE /\ positions_of_interest' = b.positions_of_interest
               /\ IF coord_border = None
                  THEN /\ pc' = "prepare"
                       /\ results' = results
                       /\ executed' = executed \cup {"polygon"}
                       /\ UNCHANGED array_positions
                  ELSE /\ executed' = executed \cup {"polygon", "filter"}
                       /\ \E emptyHasGeoms \in BOOLEAN :
                            IF GeomsRaises(b.geom, emptyHasGeoms)
                            THEN /\ pc' = "done"
                                 /\ results' = Raise("AttributeError")
                                 /\ UNCHANGED array_positions
                            ELSE /\ pc' = "prepare"
                                 /\ results' = results
                                 /\ array_positions' = b.positions_of_interest
    /\ UNCHANGED <<inputs, nb_part, densite, ringvars, g_of_r,
                   g_of_r_normalized, normalisation, dist_to_border, ii,
                   written, radii>>

\* Lines 139-168: the density, the rings and the initial arrays
StepPrepare ==
    /\ pc = "prepare"
    /\ nb_part' = Len(array_positions)
    /\ IF DensityRaises(area_of_interest)
       THEN /\ pc' = "done"
            /\ results' = Raise("ZeroDivisionError")
            /\ executed' = executed
            /\ UNCHANGED <<densite, ringvars, g_of_r, g_of_r_normalized,
                           normalisation, dist_to_border>>
       ELSE /\ densite' = Density(Len(array_positions), area_of_interest)
            /\ rings' = [jj \in 1..NBins(bins_distances) |-> Ring(bins_distances, jj)]
            /\ ring_area_approx' = [jj \in 1..NBins(bins_distances) |->
                                      RingAreaApprox(Ring(bins_distances, jj))]
            /\ ring_area' = [jj \in 1..NBins(bins_distances) |->
                               RingArea(bins_distances, jj)]
            /\ g_of_r' = Zeros(NBins(bins_distances))
            /\ g_of_r_normalized' = Zeros(NBins(bins_distances))
            /\ normalisation' = Ones(Len(array_positions), NBins(bins_distances))
            /\ dist_to_border' = Zeros(Len(array_positions))
            /\ executed' = executed \cup {"density", "rings"}
            /\ pc' = IF fast_method THEN "fast"
                     ELSE LoopOrEnd(Len(array_positions), "accurate", "finish")
            /\ results' = results
    /\ ii' = 1
    /\ UNCHANGED <<inputs, domain, array_positions, written, radii>>

\* Lines 170-181
StepFast ==
    /\ pc = "fast"
    /\ LET f == FastMethod(positions_of_interest, array_positions, normalisation,
                           area_of_interest, bins_distances, full_output)
       IN  /\ array_positions' = f.array_positions
           /\ nb_part' = f.nb_part
           /\ dist_to_border' = f.dist_to_border
           /\ normalisation' = f.normalisation
           /\ pc' = LoopOrEnd(f.nb_part, "histogram", "finish")
    /\ executed' = executed \cup {"distances", "exclusion"}
    /\ ii' = 1
    /\ UNCHANGED <<inputs, domain, densite, ringvars, g_of_r, g_of_r_normalized,
                   written, radii, results>>

\* Lines 185-193, one iteration
StepAccurate ==
    /\ pc = "accurate"
    /\ LET p == positions_of_interest[ii]
           a == AccurateRow(p, normalisation[ii], area_of_interest, bins_distances)
       IN  /\ dist_to_border' = [dist_to_border EXCEPT ![ii] = a.dist]
           /\ normalisation' = [normalisation EXCEPT ![ii] = a.row]
           /\ written' = written \cup
                  {<<ii, jj>> : jj \in WriteSet(a.dist, bins_distances)}
    /\ executed' = executed \cup {"distances", "normalisation"}
    /\ ii' = IF ii = nb_part THEN 1 ELSE ii + 1
    /\ pc' = IF ii = nb_part THEN "histogram" ELSE "accurate"
    /\ UNCHANGED <<inputs, domain, array_positions, nb_part, densite, ringvars,
                   g_of_r, g_of_r_normalized, radii, results>>

\* Lines 200-209, one iteration
StepHistogram ==
    /\ pc = "histogram"
    /\ executed' = executed \cup {"histogram"}
    /\ IF HistogramRaises(bins_distances)
       THEN /\ pc' = "done"
            /\ results' = Raise("ValueError")
            /\ UNCHANGED <<g_of_r, g_of_r_normalized, ii>>
       ELSE LET acc == HistIter([g |-> g_of_r, gn |-> g_of_r_normalized],
                                array_positions, ii, bins_distances, normalisation)
            IN  /\ g_of_r' = acc.g
                /\ g_of_r_normalized' = acc.gn
                /\ ii' = IF ii = nb_part THEN 1 ELSE ii + 1
                /\ pc' = IF ii = nb_part THEN "finish" ELSE "histogram"
                /\ results' = results
    /\ UNCHANGED <<inputs, domain, array_positions, nb_part, densite, ringvars,
                   normalisation, dist_to_border, written, radii>>

\* Lines 215-242
StepFinish ==
    /\ pc = "finish"
    /\ LET fin == Finalize([g |-> g_of_r, gn |-> g_of_r_normalized], nb_part,
                           densite, bins_distances)
       IN  /\ g_of_r' = fin.g
           /\ g_of_r_normalized' = fin.gn
           /\ radii' = fin.radii
           /\ results' = Results(fin, array_positions, dist_to_border,
                                 normalisation, densite, full_output)
    /\ executed' = executed \cup {"finalize"}
    /\ pc' = "done"
    /\ UNCHANGED <<inputs, domain, array_positions, nb_part, densite, ringvars,
                   normalisation, dist_to_border, ii, written>>

Next ==
    \/ StepBoundary
    \/ StepPrepare
    \/ StepFast
    \/ StepAccurate
    \/ StepHistogram
    \/ StepFinish

Spec == Init /\ [][Next]_vars

SpecFlags == InitFlags /\ [][Next]_vars

----------------------------------------------------------------------------
\* The state machine computes what the function of the arguments computes

Done == pc = "done"

Returned == pc = "done" /\ results.kind = "return"

RunIsFunction ==
    Done => \E e \in BOOLEAN :
        results = Pcf2d(input_positions, bins_distances, coord_border,
                        coord_holes, fast_method, full_output, e)

----------------------------------------------------------------------------
\* Claims

StrictlyIncreasing(bins) ==
    Len(bins) >= 2 /\ \A k \in 1..(Len(bins) - 1) : bins[k] < bins[k + 1]

\* The borders of BorderCands that do not form a valid polygon: the bow tie
\* of the docstring, and the hole that crosses the shell
InvalidBorder == coord_border = BowTie \/ coord_holes = <<CrossingHole>>

\* C1: with a coord_border (with or without coord_holes) that forms an
\* invalid polygon the call ends at the validation: it returns None, and no
\* later stage (filtering, density, rings, distances, normalization,
\* histogram, finalization) is ever executed, whatever fast_method,
\* full_output, show_timing and plot are.
C1_InvalidPolygonAborts ==
    InvalidBorder =>
        /\ executed \subseteq {"polygon"}
        /\ pc \in {"boundary", "done"}
        /\ results = IF pc = "done" THEN ReturnNone ELSE Running

C1_Witness ==
    /\ pc = "done"
    /\ coord_holes = <<CrossingHole>>
    /\ show_timing /\ plot /\ fast_method /\ full_output
    /\ Len(input_positions) > 0
    /\ results = ReturnNone

\* C2: a bins_distances that is not strictly increasing or has fewer than 2
\* edges is rejected before any geometry work: no polygon, ring, boundary
\* distance or normalization factor is computed, and no numeric result is
\* returned.
C2_IllFormedBinsRejected ==
    ~StrictlyIncreasing(bins_distances) =>
        /\ executed \cap {"polygon", "filter", "rings", "distances", "exclusion",
                          "normalisation"} = {}
        /\ results.kind # "return"

\* No point is retained: none of the input is inside the area of interest
\* (boundary supplied, or convex hull of no point), or the exclusion of the
\* fast method removed them all
NoPointRetained ==
    \/ /\ "polygon" \in executed
       /\ results.kind # "None"
       /\ Len(positions_of_interest) = 0
    \/ /\ "exclusion" \in executed
       /\ nb_part = 0

\* C3: when no point is retained the call does not end on an unhandled
\* division by zero, and what it returns is a distinguishable undefined
\* result: every entry of g(r) is NaN, none is finite.
C3_EmptyResultIsNaN ==
    (pc = "done" /\ NoPointRetained /\ StrictlyIncreasing(bins_distances)) =>
        /\ results.exc # "ZeroDivisionError"
        /\ results.kind = "return" =>
              \A j \in 1..Len(results.out[1]) : IsNan(results.out[1][j])

\* C4: for a valid area of interest and strictly increasing bin edges, every
\* entry (i, j) of normalisation lies in (0, 1] (it is never 0), and it is
\* exactly 1 whenever the distance of point i to the boundary is >= the outer
\* edge of bin j.
C4_NormalisationInUnitInterval ==
    (pc \in {"histogram", "finish", "done"} /\ "rings" \in executed
        /\ StrictlyIncreasing(bins_distances)) =>
        \A i \in 1..Len(normalisation) : \A j \in 1..NBins(bins_distances) :
            /\ normalisation[i][j][2] # 0
            /\ 0 < normalisation[i][j][1]
            /\ normalisation[i][j][1] <= normalisation[i][j][2]
            /\ (Len(dist_to_border) = Len(normalisation)
                  /\ ~FLtSq(dist_to_border[i], bins_distances[j + 1]))
                => normalisation[i][j] = FInt(1)

\* the squared distance to the boundary of the k-th point of the area of
\* interest
BoundaryDist(k) == Distance2(positions_of_interest[k], Boundary(area_of_interest))

\* C5: when no point of the area of interest is closer to the boundary than
\* the largest bin edge (every distance >= bins_distances[-1], equality
\* included), the fast and the accurate method return identical outputs.
C5_ModesAgree ==
    (Returned /\ StrictlyIncreasing(bins_distances)
        /\ \A k \in 1..Len(positions_of_interest) :
               ~FLtSq(BoundaryDist(k), bins_distances[Len(bins_distances)])) =>
        results = FromDensity(positions_of_interest, area_of_interest,
                              bins_distances, ~fast_method, full_output)

\* C5 with the equality left out (every distance > bins_distances[-1]): then
\* the two methods do return identical outputs.
C5_ModesAgreeStrict ==
    (Returned /\ StrictlyIncreasing(bins_distances)
        /\ \A k \in 1..Len(positions_of_interest) :
               FGtSq(BoundaryDist(k), bins_distances[Len(bins_distances)])) =>
        results = FromDensity(positions_of_interest, area_of_interest,
                              bins_distances, ~fast_method, full_output)

\* the rows of array_positions in ascending order, repetitions kept
RECURSIVE SortRows(_)
SortRows(pos) ==
    IF Len(pos) = 0 THEN <<>>
    ELSE LET m == CHOOSE k \in 1..Len(pos) :
                    \A l \in 1..Len(pos) : ~PointLess(pos[l], pos[k])
         IN  <<pos[m]>> \o SortRows([k \in 1..(Len(pos) - 1) |->
                                      IF k < m THEN pos[k] ELSE pos[k + 1]])

\* g(r) and r, and with full_output the raw PDF and the estimated density
Summary(res) ==
    IF res.kind # "return" THEN <<>>
    ELSE IF Len(res.out) = 2 THEN <<res.out[1], res.out[2]>>
    ELSE <<res.out[1], res.out[2], res.out[3], res.out[7]>>

NbFarEnough ==
    Cardinality({k \in 1..Len(positions_of_interest) :
        FGtSq(BoundaryDist(k), bins_distances[Len(bins_distances)])})

\* C7: the estimated density is (number of points inside the area of
\* interest) / (area), fixed before the exclusion of the fast method and not
\* changed by it; the count that divides g(r) (together with the density)
\* and the raw PDF is the number of points that survive the exclusion in the
\* fast method, and the number of points inside in the accurate method.
C7_DensityAndDivisors ==
    [][/\ pc = "fast" => densite' = densite
       /\ pc = "finish" =>
            LET inside == Len(positions_of_interest)
                used == IF fast_method THEN NbFarEnough ELSE inside
            IN  /\ densite = FNorm(2 * inside, Area2(area_of_interest))
                /\ densite' = densite
                /\ nb_part = used
                /\ Len(array_positions) = used
                /\ \A j \in 1..NBins(bins_distances) :
                     /\ g_of_r_normalized'[j]
                          = FDiv(g_of_r_normalized[j], FMul(FInt(used), densite))
                     /\ g_of_r'[j] = FDiv(g_of_r[j], FInt(used))]_vars

C7_Witness ==
    /\ Returned
    /\ fast_method
    /\ 0 < nb_part
    /\ nb_part < Len(positions_of_interest)
    /\ \E j \in 1..NBins(bins_distances) :
          IsFinite(g_of_r_normalized[j]) /\ g_of_r_normalized[j][1] > 0

C9_NormalisationWrites ==
    [][pc = "accurate" =>
        LET d == dist_to_border'[ii] IN
        /\ d = BoundaryDist(ii)
        /\ \A w \in written' : w[2] \in 1..NBins(bins_distances)
        /\ \A i \in 1..nb_part : \A j \in 1..NBins(bins_distances) :
              LET w == /\ i = ii
                       /\ \/ FLeSq(d, bins_distances[1])
                          \/ FLtSq(d, bins_distances[j + 1])
              IN  /\ <<i, j>> \in written' \ written <=> w
                  /\ normalisation'[i][j]
                        = IF w THEN NormFactor(area_of_interest, bins_distances,
                                               j, positions_of_interest[ii])
                          ELSE normalisation[i][j]
                  /\ (i = ii /\ ~w) => normalisation'[i][j] = FInt(1)]_vars

C9_Witness ==
    /\ Returned
    /\ ~fast_method
    /\ \E i \in 1..nb_part :
          /\ <<i, 2>> \in written
          /\ <<i, 1>> \notin written
          /\ normalisation[i][2] # FInt(1)
    /\ \E i \in 1..nb_part : <<i, 1>> \in written

\* the bin of the squared distance dd: [edge j, edge j+1), closed on the
\* right for the last bin
InBin(dd, j, bins) ==
    /\ bins[j] * bins[j] <= dd
    /\ \/ dd < bins[j + 1] * bins[j + 1]
       \/ (j = NBins(bins) /\ dd = bins[j + 1] * bins[j + 1])

\* C10: when the accumulation ends, the raw count of bin j is twice the
\* number of unordered pairs {i, k} of distinct retained points whose
\* distance falls in bin j (no point is counted with itself, also when
\* bins_distances[0] = 0), each pair falls in at most one bin, and the
\* total is at most nb_part * (nb_part - 1).
C10_PairsCountedTwice ==
    (pc = "finish" /\ nb_part > 0) =>
        LET pairs(j) ==
                {p \in (1..nb_part) \X (1..nb_part) :
                    /\ p[1] < p[2]
                    /\ InBin(Dist2(array_positions[p[1]], array_positions[p[2]]),
                             j, bins_distances)}
        IN  /\ \A j \in 1..NBins(bins_distances) :
                 /\ g_of_r[j] = FInt(2 * Cardinality(pairs(j)))
                 /\ \A l \in 1..NBins(bins_distances) :
                       l # j => pairs(j) \cap pairs(l) = {}
            /\ SumTo(NBins(bins_distances),
                     [j \in 1..NBins(bins_distances) |-> g_of_r[j][1]])
                 <= nb_part * (nb_part - 1)

C10_Witness ==
    /\ pc = "finish"
    /\ nb_part >= 2
    /\ bins_distances[1] = 0
    /\ \E j \in 1..NBins(bins_distances) : g_of_r[j][1] >= 2

====
